---- MODULE Spec2Model ----
(***************************************************************************)
(* Model of the technical-indicator engine of the stock-analysis backend   *)
(* (src/agent/technicals.py) and of the agent workflow that calls it       *)
(* (src/agent/agent.py).                                                   *)
(*                                                                         *)
(* Numbers.  Prices and indicator values are decimal fixed-point integers  *)
(* in units of 10^-5, so that both roundings the engine applies            *)
(* (2 decimals, and 4 decimals for MACD) are real conversions.  Results of *)
(* the pivot-point arithmetic, which divides by 3, are kept exactly as     *)
(* thirds of a unit.                                                       *)
(*                                                                         *)
(* Collaborators.  yfinance and pandas_ta are not part of the repository:  *)
(* every call to them is an input of the model.  A call yields a value     *)
(* ("ok"), an empty result ("empty"), no result at all ("none", on which   *)
(* the attribute access that follows raises) or raises ("raise").          *)
(***************************************************************************)
EXTENDS Integers, Sequences, FiniteSets, TLC

VARIABLES
    pc,                   \* position inside get_technical_indicators
    hist,                 \* the fetched price history: [empty, nbars]
    current_price,        \* close.iloc[-1]
    faults,               \* collaborator calls that did not yield a value
    osc,                  \* the six oscillator readings: name -> [value, action]
    osc_count,            \* osc_buy, osc_sell, osc_neutral, osc_rating
    ma,                   \* ma10 .. ma200: name -> calc_ma_pair(period)
    ma_count,             \* ma_buy, ma_sell, ma_neutral, ma_rating
    total_count,          \* total_buy, total_sell, total_neutral, overall_rating
    levels,               \* calculate_support_resistance(high, low, close)
    volatility,           \* atr_value, volatility_score, volatility_analysis
    result,               \* the value returned to the caller
    escaped,              \* TRUE iff an exception left get_technical_indicators
    run,                  \* 1 in the first invocation, 2 in a repeated one
    drawn,                \* the snapshot: what each collaborator call yielded
    first,                \* the report the first invocation returned
    call,                 \* a direct call of one of the module's pure functions
    ret,                  \* ... and what it returned
    node,                 \* the node of the agent workflow that runs next
    executed,             \* the nodes that ran in this workflow run, in order
    state,                \* the AgentState: key -> value, for the keys written
    analysis              \* financial_analysis: what llm.invoke(prompt) returned

vars == <<pc, hist, current_price, faults, osc, osc_count, ma, ma_count,
          total_count, levels, volatility, result, escaped, run, drawn, first,
          call, ret, node, executed, state, analysis>>

workflowVars == <<node, executed, state, analysis>>

engineVars == <<pc, hist, current_price, faults, osc, osc_count, ma, ma_count,
                total_count, levels, volatility, result, escaped, run, drawn,
                first>>

(***************************************************************************)
(* Bounds of the model.                                                    *)
(***************************************************************************)
MaxFaults == 1      \* collaborator faults injected into one invocation
MaxExtra  == 0      \* bars beyond each threshold: counts t .. t+MaxExtra
MaxCount  == 20     \* largest count handed to map_to_rating directly
MaxPrice  == 110    \* largest price handed to price_vs_ma_signal directly

(***************************************************************************)
(* Decimal fixed point.                                                    *)
(***************************************************************************)
Dec2(c) == c * 1000                  \* c hundredths, in units of 10^-5

\* round(x, n): nearest multiple of m, ties to even (Python's round())
RoundTo(x, m) ==
    LET q == x \div m
        r == x % m
    IN  IF 2 * r < m THEN q * m
        ELSE IF 2 * r > m THEN (q + 1) * m
        ELSE IF q % 2 = 0 THEN q * m ELSE (q + 1) * m

Round2(x) == RoundTo(x, 1000)
Round4(x) == RoundTo(x, 10)

(***************************************************************************)
(* Pure functions of the module.                                           *)
(***************************************************************************)
map_to_rating_strict(buy_count, sell_count, neutral_count) ==
    LET total == buy_count + sell_count + neutral_count
    IN  IF total = 0 THEN "Neutral"
        ELSE IF 100 * buy_count >= 75 * total THEN "Strong Buy"
        ELSE IF 100 * buy_count > 55 * total THEN "Buy"
        ELSE IF 100 * buy_count <= 25 * total THEN "Strong Sell"
        ELSE IF 100 * buy_count <= 45 * total THEN "Sell"
        ELSE "Neutral"

map_to_rating_narrow_sell(buy_count, sell_count, neutral_count) ==
    LET total == buy_count + sell_count + neutral_count
    IN  IF total = 0 THEN "Neutral"
        ELSE IF 100 * buy_count >= 75 * total THEN "Strong Buy"
        ELSE IF 100 * buy_count >= 55 * total THEN "Buy"
        ELSE IF 100 * buy_count <= 25 * total THEN "Strong Sell"
        ELSE IF 100 * buy_count <= 30 * total THEN "Sell"
        ELSE "Neutral"

map_to_rating_ignore_neutral(buy_count, sell_count, neutral_count) ==
    LET total == buy_count + sell_count
    IN  IF total = 0 THEN "Neutral"
        ELSE IF 100 * buy_count >= 75 * total THEN "Strong Buy"
        ELSE IF 100 * buy_count >= 55 * total THEN "Buy"
        ELSE IF 100 * buy_count <= 25 * total THEN "Strong Sell"
        ELSE IF 100 * buy_count <= 45 * total THEN "Sell"
        ELSE "Neutral"

\* buy_ratio = buy_count / total is compared exactly: buy_ratio >= 0.75 is
\* 100 * buy_count >= 75 * total
map_to_rating(buy_count, sell_count, neutral_count) ==
    LET total == buy_count + sell_count + neutral_count
    IN  IF total = 0 THEN "Neutral"
        ELSE IF 100 * buy_count >= 75 * total THEN "Strong Buy"
        ELSE IF 100 * buy_count >= 55 * total THEN "Buy"
        ELSE IF 100 * buy_count <= 25 * total THEN "Strong Sell"
        ELSE IF 100 * buy_count <= 45 * total THEN "Sell"
        ELSE "Neutral"

price_vs_ma_signal_neutral(price, ma_value) ==
    IF price > ma_value THEN "BUY" ELSE IF price < ma_value THEN "SELL" ELSE "NEUTRAL"

price_vs_ma_signal_ge(price, ma_value) ==
    IF price >= ma_value THEN "BUY" ELSE "SELL"

price_vs_ma_signal(price, ma_value) ==
    IF price > ma_value THEN "BUY" ELSE "SELL"

rsi_signal_inclusive(rsi) ==
    IF rsi <= Dec2(3000) THEN "BUY"
    ELSE IF rsi > Dec2(7000) THEN "SELL" ELSE "NEUTRAL"

rsi_signal(rsi) ==
    IF rsi < Dec2(3000) THEN "BUY"
    ELSE IF rsi > Dec2(7000) THEN "SELL" ELSE "NEUTRAL"

stoch_signal(stoch_k) ==
    IF stoch_k < Dec2(2000) THEN "BUY"
    ELSE IF stoch_k > Dec2(8000) THEN "SELL" ELSE "NEUTRAL"

cci_signal(cci) ==
    IF cci < -Dec2(10000) THEN "BUY"
    ELSE IF cci > Dec2(10000) THEN "SELL" ELSE "NEUTRAL"

adx_signal(adx) == IF adx > Dec2(2500) THEN "BUY" ELSE "NEUTRAL"

momentum_signal(momentum) ==
    IF momentum > 0 THEN "BUY"
    ELSE IF momentum < 0 THEN "SELL" ELSE "NEUTRAL"

macd_signal_neutral_tie(macd_value, macd_signal_value) ==
    IF macd_value > macd_signal_value THEN "BUY"
    ELSE IF macd_value < macd_signal_value THEN "SELL" ELSE "NEUTRAL"

macd_signal(macd_value, macd_signal_value) ==
    IF macd_value > macd_signal_value THEN "BUY" ELSE "SELL"

(***************************************************************************)
(* Volatility and support/resistance sub-engines.                          *)
(***************************************************************************)
\* what a pandas_ta call can yield; a fault is injected only within budget
TaResults(values, dflt) ==
    {[kind |-> "ok", value |-> v] : v \in values}
    \cup (IF faults < MaxFaults
          THEN {[kind |-> k, value |-> dflt] : k \in {"empty", "none", "raise"}}
          ELSE {})

Fault(r) == IF r.kind = "ok" THEN 0 ELSE 1

\* the collaborator calls of one invocation; an invocation repeated on the
\* same snapshot gets from each call what the first invocation got
Sites == {"history", "price", "rsi", "stoch", "cci", "adx", "momentum", "macd",
          "ma10", "ma20", "ma50", "ma100", "ma200", "window", "atr", "std"}
Undrawn == [kind |-> "undrawn", value |-> 0]
Values(S) == {[kind |-> "ok", value |-> v] : v \in S}
Draw(site, S) == IF drawn[site].kind = "undrawn" THEN S ELSE {drawn[site]}
Recorded(site, r) == [drawn EXCEPT ![site] = r]

calculate_atr_sentinel(ta_atr) == IF ta_atr.kind = "ok" THEN ta_atr.value ELSE -1

\* try: float(atr_df.iloc[-1]) if not atr_df.empty else 0; except: 0
calculate_atr(ta_atr) == IF ta_atr.kind = "ok" THEN ta_atr.value ELSE 0

\* nearest integer to num / den, ties to even (den > 0)
RoundRatio(num, den) ==
    LET q == num \div den
        r == num % den
    IN  IF 2 * r < den THEN q
        ELSE IF 2 * r > den THEN q + 1
        ELSE IF q % 2 = 0 THEN q ELSE q + 1

HistVolFactor == 398428     \* sqrt(252 ** .5) * 100, in thousandths

volatility_rank_inclusive(atr_value, price) ==
    IF atr_value * 1000 >= 25 * price THEN "High"
    ELSE IF atr_value * 1000 < 15 * price THEN "Low" ELSE "Medium"

\* atr_percentage = atr_value / current_price * 100 compared exactly:
\* atr_percentage > 2.5 is atr_value * 1000 > 25 * current_price
volatility_rank(atr_value, price) ==
    IF atr_value * 1000 > 25 * price THEN "High"
    ELSE IF atr_value * 1000 < 15 * price THEN "Low" ELSE "Medium"

get_volatility_analysis(ta_atr, returns_std, price) ==
    LET atr_value == calculate_atr(ta_atr)
        historical_volatility == (returns_std * HistVolFactor) \div 1000
    IN  [atr                   |-> Round2(atr_value),
         atr_percentage        |-> Dec2(RoundRatio(atr_value * 10000, price)),
         volatility_rank       |-> volatility_rank(atr_value, price),
         historical_volatility |-> Round2(historical_volatility)]

\* "High" if atr_value > current_price * .02 else "Low"
volatility_score_of(atr_value, price) ==
    IF atr_value * 100 > price * 2 THEN "High" ELSE "Low"

ZeroLevels_empty == [support |-> <<>>, resistance |-> <<>>]

ZeroLevels == [support |-> <<0, 0, 0>>, resistance |-> <<0, 0, 0>>]

calculate_support_resistance_swapped(recent_high, recent_low, current) ==
    LET pivot3 == recent_high + recent_low + current
        resistance1 == 2 * pivot3 - 3 * recent_high
        resistance2 == pivot3 + 3 * (recent_high - recent_low)
        resistance3 == 3 * recent_high + 2 * (pivot3 - 3 * recent_low)
        support1 == 2 * pivot3 - 3 * recent_low
        support2 == pivot3 - 3 * (recent_high - recent_low)
        support3 == 3 * recent_low - 2 * (3 * recent_high - pivot3)
    IN  [support    |-> <<support1, support2, support3>>,
         resistance |-> <<resistance1, resistance2, resistance3>>]

calculate_support_resistance_close_range(recent_high, recent_low, current) ==
    LET pivot3 == recent_high + recent_low + current
        resistance1 == 2 * pivot3 - 3 * recent_low
        resistance2 == pivot3 + 3 * (recent_high - current)
        resistance3 == 3 * recent_high + 2 * (pivot3 - 3 * recent_low)
        support1 == 2 * pivot3 - 3 * recent_high
        support2 == pivot3 - 3 * (recent_high - current)
        support3 == 3 * recent_low - 2 * (3 * recent_high - pivot3)
    IN  [support    |-> <<support1, support2, support3>>,
         resistance |-> <<resistance1, resistance2, resistance3>>]

\* the six levels, exactly, in thirds of a unit (pivot3 is 3 * pivot)
calculate_support_resistance(recent_high, recent_low, current) ==
    LET pivot3 == recent_high + recent_low + current
        resistance1 == 2 * pivot3 - 3 * recent_low
        resistance2 == pivot3 + 3 * (recent_high - recent_low)
        resistance3 == 3 * recent_high + 2 * (pivot3 - 3 * recent_low)
        support1 == 2 * pivot3 - 3 * recent_high
        support2 == pivot3 - 3 * (recent_high - recent_low)
        support3 == 3 * recent_low - 2 * (3 * recent_high - pivot3)
    IN  [support    |-> <<support1, support2, support3>>,
         resistance |-> <<resistance1, resistance2, resistance3>>]

\* the whole function: try: ... except: return all-zero levels; window is
\* "ok" when the window arithmetic succeeds and "raise" when a step raises
try_support_resistance(window, recent_high, recent_low, current) ==
    IF window = "ok"
    THEN calculate_support_resistance(recent_high, recent_low, current)
    ELSE ZeroLevels

\* round(float(x), 2) of a level kept in thirds
Round2Thirds(x) == RoundTo(x, 3000) \div 3

(***************************************************************************)
(* Inputs of one invocation.                                               *)
(***************************************************************************)
MIN_BARS == 50
Periods == [ma10 |-> 10, ma20 |-> 20, ma50 |-> 50, ma100 |-> 100, ma200 |-> 200]
MaNames == <<"ma10", "ma20", "ma50", "ma100", "ma200">>
OscNames == <<"rsi", "stoch", "cci", "adx", "momentum", "macd">>

\* series lengths around the guard and around the long periods
BarCounts == {0, MIN_BARS - 1} \cup {t + d : t \in {50, 100, 200}, d \in 0..MaxExtra}

Prices == {Dec2(1000)}
RsiValues == {Dec2(2999), Dec2(3000), Dec2(7000), Dec2(7001)}
StochValues == {Dec2(8512) + 345}
CciValues == {-(Dec2(12050) + 678)}
AdxValues == {Dec2(3010) + 111}
MomValues == {-(Dec2(150) + 222)}
MacdValues == {<<123456, 100000>>, <<100000, 100000>>}
\* <<sma, ema>> of one period: both below the price, or both above it
MaValues(price) == {<<price - 123456, price - 65432>>,
                    <<price + 123456, price + 65432>>}
\* 1.49 %, 1.5 %, 2.5 % and 2.51 % of the price
AtrValues == {Dec2(15) - 100, Dec2(15), Dec2(25), Dec2(25) + 100}
StdValues == {1234}
Windows(price) == {<<price + Dec2(50), price - Dec2(30)>>}

(***************************************************************************)
(* get_technical_indicators, step by step.                                 *)
(***************************************************************************)
Unset == [value |-> 0, action |-> "UNSET"]
UnsetPair == [simple |-> Unset, exponential |-> Unset]
UnsetCount == [buy |-> 0, sell |-> 0, neutral |-> 0, rating |-> "UNSET"]
UnsetLevels == [support |-> <<>>, resistance |-> <<>>]
UnsetVolatility ==
    [atr_value |-> 0, volatility_score |-> "UNSET",
     volatility_analysis |-> [atr |-> 0, atr_percentage |-> 0,
                              volatility_rank |-> "UNSET",
                              historical_volatility |-> 0]]
EmptyReport == [k \in {} |-> 0]
NoCall == [fn |-> "none"]

locals == <<hist, current_price, osc, osc_count, ma, ma_count, total_count,
            levels, volatility>>

\* the llm reply of financial_analysis before the node has asked for it
NoAnalysis ==
    [kind |-> "unset", keys |-> {}, recommendation |-> "none",
     confidence_level |-> "none"]

\* the compiled workflow exists but app.invoke has not been called
NoWorkflow ==
    /\ node = "off"
    /\ executed = <<>>
    /\ state = [k \in {} |-> 0]
    /\ analysis = NoAnalysis

InitEngine ==
    /\ hist = [empty |-> TRUE, nbars |-> 0]
    /\ current_price = 0
    /\ faults = 0
    /\ osc = [n \in {OscNames[i] : i \in DOMAIN OscNames} |-> Unset]
    /\ osc_count = UnsetCount
    /\ ma = [n \in {MaNames[i] : i \in DOMAIN MaNames} |-> UnsetPair]
    /\ ma_count = UnsetCount
    /\ total_count = UnsetCount
    /\ levels = UnsetLevels
    /\ volatility = UnsetVolatility
    /\ result = EmptyReport
    /\ escaped = FALSE
    /\ run = 1
    /\ drawn = [site \in Sites |-> Undrawn]
    /\ first = EmptyReport

Init ==
    /\ pc = "fetch"
    /\ InitEngine
    /\ NoWorkflow
    /\ call = NoCall
    /\ ret = "none"

OnException_reraise ==
    /\ result' = EmptyReport
    /\ escaped' = TRUE
    /\ pc' = "done"

\* except Exception as e: ... return {}
OnException ==
    /\ result' = EmptyReport
    /\ escaped' = FALSE
    /\ pc' = "done"

InsufficientData_empty_only(h) == h.empty

InsufficientData_short(h) == h.empty \/ h.nbars < 14

\* if hist.empty or len(hist) < 50
InsufficientData(h) == h.empty \/ h.nbars < MIN_BARS

\* stock = yf.Ticker(stock_name); hist = stock.history(...)
Fetch ==
    /\ pc = "fetch"
    /\ \E h \in Draw("history", [kind : {"raise"}, value : {0}]
                                 \cup Values(BarCounts)) :
          /\ drawn' = Recorded("history", h)
          /\ IF h.kind = "raise"
             THEN /\ OnException
                  /\ UNCHANGED hist
             ELSE /\ hist' = [empty |-> (h.value = 0), nbars |-> h.value]
                  /\ pc' = "guard"
                  /\ UNCHANGED <<result, escaped>>
    /\ UNCHANGED <<current_price, faults, osc, osc_count, ma, ma_count,
                   total_count, levels, volatility, run, first, call, ret,
                   workflowVars>>

Guard ==
    /\ pc = "guard"
    /\ IF InsufficientData(hist)
       THEN /\ result' = EmptyReport
            /\ pc' = "done"
            /\ UNCHANGED <<current_price, drawn>>
       ELSE /\ \E p \in Draw("price", Values(Prices)) :
                  /\ current_price' = p.value
                  /\ drawn' = Recorded("price", p)
            /\ pc' = "rsi"
            /\ UNCHANGED result
    /\ UNCHANGED <<hist, faults, osc, osc_count, ma, ma_count, total_count,
                   levels, volatility, escaped, run, first, call, ret,
                   workflowVars>>

\* one oscillator: value = float(x.iloc[-1]) if not x.empty else default
signal_of(name, value) ==
    CASE name = "rsi" -> rsi_signal(value)
      [] name = "stoch" -> stoch_signal(value)
      [] name = "cci" -> cci_signal(value)
      [] name = "adx" -> adx_signal(value)
      [] name = "momentum" -> momentum_signal(value)

Oscillator(step, next, name, values, default) ==
    /\ pc = step
    /\ \E r \in Draw(name, TaResults(values, default)) :
          /\ drawn' = Recorded(name, r)
          /\ faults' = faults + Fault(r)
          /\ IF r.kind \in {"none", "raise"}
             THEN /\ OnException
                  /\ UNCHANGED osc
             ELSE /\ osc' = [osc EXCEPT ![name] =
                               [value |-> r.value, action |-> signal_of(name, r.value)]]
                  /\ pc' = next
                  /\ UNCHANGED <<result, escaped>>
    /\ UNCHANGED <<hist, current_price, osc_count, ma, ma_count, total_count,
                   levels, volatility, run, first, call, ret,
                   workflowVars>>

RSI == Oscillator("rsi", "stoch", "rsi", RsiValues, Dec2(5000))
Stochastic == Oscillator("stoch", "cci", "stoch", StochValues, Dec2(5000))
CCI == Oscillator("cci", "adx", "cci", CciValues, 0)
ADX == Oscillator("adx", "momentum", "adx", AdxValues, Dec2(2500))
Momentum == Oscillator("momentum", "macd", "momentum", MomValues, 0)

MACD ==
    /\ pc = "macd"
    /\ \E r \in Draw("macd", TaResults(MacdValues, <<0, 0>>)) :
          /\ drawn' = Recorded("macd", r)
          /\ faults' = faults + Fault(r)
          /\ IF r.kind \in {"none", "raise"}
             THEN /\ OnException
                  /\ UNCHANGED osc
             ELSE /\ osc' = [osc EXCEPT !["macd"] =
                               IF r.kind = "ok"
                               THEN [value  |-> r.value[1],
                                     action |-> macd_signal(r.value[1], r.value[2])]
                               ELSE [value |-> 0, action |-> "NEUTRAL"]]
                  /\ pc' = "osc_count"
                  /\ UNCHANGED <<result, escaped>>
    /\ UNCHANGED <<hist, current_price, osc_count, ma, ma_count, total_count,
                   levels, volatility, run, first, call, ret,
                   workflowVars>>

Count_carry(signals, s) ==
    Cardinality({i \in DOMAIN signals : signals[i] = s})
    + (IF s = "BUY" THEN total_count.buy ELSE 0)

\* signals.count(s)
Count(signals, s) == Cardinality({i \in DOMAIN signals : signals[i] = s})

Consensus(signals) ==
    LET buy == Count(signals, "BUY")
        sell == Count(signals, "SELL")
        neutral == Count(signals, "NEUTRAL")
    IN  [buy |-> buy, sell |-> sell, neutral |-> neutral,
         rating |-> map_to_rating(buy, sell, neutral)]

osc_signals == [i \in DOMAIN OscNames |-> osc[OscNames[i]].action]

\* osc_buy, osc_sell, osc_neutral, osc_rating
CountOscillators ==
    /\ pc = "osc_count"
    /\ osc_count' = Consensus(osc_signals)
    /\ pc' = "ma10"
    /\ UNCHANGED <<hist, current_price, faults, osc, ma, ma_count, total_count,
                   levels, volatility, result, escaped, run, drawn, first,
                   call, ret,
                   workflowVars>>

ma_fallback_zero(price) == 0

\* ... if len(close) >= period else current_price
ma_fallback(price) == price

calc_ma_pair(sma, ema, price) ==
    [simple      |-> [value |-> sma, action |-> price_vs_ma_signal(price, sma)],
     exponential |-> [value |-> ema, action |-> price_vs_ma_signal(price, ema)]]

NextMa == [ma10 |-> "ma20", ma20 |-> "ma50", ma50 |-> "ma100",
           ma100 |-> "ma200", ma200 |-> "ma_count"]

\* ma10 = calc_ma_pair(10) ... ma200 = calc_ma_pair(200); when ta.sma or
\* ta.ema yields no value, .iloc[-1] raises
MovingAverage(name) ==
    /\ pc = name
    /\ IF hist.nbars >= Periods[name]
       THEN \E v \in Draw(name, TaResults(MaValues(current_price), <<0, 0>>)) :
               /\ drawn' = Recorded(name, v)
               /\ faults' = faults + Fault(v)
               /\ IF v.kind # "ok"
                  THEN /\ OnException
                       /\ UNCHANGED ma
                  ELSE /\ ma' = [ma EXCEPT ![name] =
                              calc_ma_pair(v.value[1], v.value[2], current_price)]
                       /\ pc' = NextMa[name]
                       /\ UNCHANGED <<result, escaped>>
       ELSE /\ ma' = [ma EXCEPT ![name] =
                        calc_ma_pair(ma_fallback(current_price),
                                     ma_fallback(current_price), current_price)]
            /\ pc' = NextMa[name]
            /\ UNCHANGED <<faults, result, escaped, drawn>>
    /\ UNCHANGED <<hist, current_price, osc, osc_count, ma_count, total_count,
                   levels, volatility, run, first, call, ret,
                   workflowVars>>

MovingAverages == \E i \in DOMAIN MaNames : MovingAverage(MaNames[i])

ma_signals ==
    [i \in 1..(2 * Len(MaNames)) |->
        IF i % 2 = 1 THEN ma[MaNames[(i + 1) \div 2]].simple.action
                     ELSE ma[MaNames[i \div 2]].exponential.action]

\* ma_buy, ma_sell, ma_neutral, ma_rating
CountMovingAverages ==
    /\ pc = "ma_count"
    /\ ma_count' = Consensus(ma_signals)
    /\ pc' = "summary"
    /\ UNCHANGED <<hist, current_price, faults, osc, osc_count, ma, total_count,
                   levels, volatility, result, escaped, run, drawn, first,
                   call, ret,
                   workflowVars>>

all_signals_ma_only == ma_signals

all_signals == osc_signals \o ma_signals

\* total_buy, total_sell, total_neutral, overall_rating
OverallSummary ==
    /\ pc = "summary"
    /\ total_count' = Consensus(all_signals)
    /\ pc' = "levels"
    /\ UNCHANGED <<hist, current_price, faults, osc, osc_count, ma, ma_count,
                   levels, volatility, result, escaped, run, drawn, first,
                   call, ret,
                   workflowVars>>

\* levels = calculate_support_resistance(high, low, close); its bare except
\* turns any failure of the window arithmetic into all-zero levels
SupportResistance ==
    /\ pc = "levels"
    /\ \E w \in Draw("window",
                     Values(Windows(current_price))
                     \cup (IF faults < MaxFaults
                           THEN [kind : {"raise"}, value : {<<0, 0>>}]
                           ELSE {})) :
          /\ drawn' = Recorded("window", w)
          /\ faults' = faults + Fault(w)
          /\ levels' = try_support_resistance(w.kind, w.value[1], w.value[2],
                                              current_price)
    /\ pc' = "volatility"
    /\ UNCHANGED <<hist, current_price, osc, osc_count, ma, ma_count, total_count,
                   volatility, result, escaped, run, first, call, ret,
                   workflowVars>>

\* atr_value, volatility_score, volatility_analysis; ta.atr is a function of
\* the series, so both calls of calculate_atr see the same outcome
Volatility ==
    /\ pc = "volatility"
    /\ \E a \in Draw("atr", TaResults(AtrValues, 0)),
          sd \in Draw("std", Values(StdValues)) :
          /\ drawn' = [drawn EXCEPT !["atr"] = a, !["std"] = sd]
          /\ volatility' =
                [atr_value |-> calculate_atr(a),
                 volatility_score |->
                     volatility_score_of(calculate_atr(a), current_price),
                 volatility_analysis |->
                     get_volatility_analysis(a, sd.value, current_price)]
          /\ faults' = faults + Fault(a)
    /\ pc' = "assemble"
    /\ UNCHANGED <<hist, current_price, osc, osc_count, ma, ma_count, total_count,
                   levels, result, escaped, run, first, call, ret,
                   workflowVars>>

Rounded(reading, digits) ==
    [value  |-> IF digits = 4 THEN Round4(reading.value) ELSE Round2(reading.value),
     action |-> reading.action]

\* 'volatility': {'atr': ..., 'volatility_score': ...}; volatility_analysis
\* is computed and not used
report_volatility ==
    [atr              |-> Round2(volatility.atr_value),
     volatility_score |-> volatility.volatility_score]

\* the dictionary of the return statement
Report ==
    [overall_signal  |-> total_count.rating,
     signal_strength |-> [bullish |-> total_count.buy, of |-> Len(all_signals)],
     summary |-> [buy |-> total_count.buy, sell |-> total_count.sell,
                  neutral |-> total_count.neutral],
     oscillators |->
        [rating |-> osc_count.rating, buy |-> osc_count.buy,
         sell |-> osc_count.sell, neutral |-> osc_count.neutral,
         rsi |-> Rounded(osc["rsi"], 2), stoch |-> Rounded(osc["stoch"], 2),
         cci |-> Rounded(osc["cci"], 2), macd |-> Rounded(osc["macd"], 4),
         adx |-> Rounded(osc["adx"], 2),
         momentum |-> Rounded(osc["momentum"], 2)],
     moving_averages |->
        [rating |-> ma_count.rating, buy |-> ma_count.buy,
         sell |-> ma_count.sell, neutral |-> ma_count.neutral,
         ma10 |-> ma["ma10"], ma20 |-> ma["ma20"], ma50 |-> ma["ma50"],
         ma100 |-> ma["ma100"], ma200 |-> ma["ma200"]],
     current_price |-> Round2(current_price),
     volatility |-> report_volatility,
     support_levels |->
        [i \in DOMAIN levels.support |-> Round2Thirds(levels.support[i])],
     resistance_levels |->
        [i \in DOMAIN levels.resistance |-> Round2Thirds(levels.resistance[i])],
     signals |->
        [rsi |-> osc["rsi"].value, macd |-> osc["macd"].action,
         ema_20 |-> ma["ma20"].exponential.action,
         ema_50 |-> ma["ma50"].exponential.action,
         ema_100 |-> ma["ma100"].exponential.action]]

Assemble ==
    /\ pc = "assemble"
    /\ result' = Report
    /\ pc' = "done"
    /\ UNCHANGED <<locals, faults, escaped, run, drawn, first, call, ret,
                   workflowVars>>

Next ==
    \/ Fetch
    \/ Guard
    \/ RSI
    \/ Stochastic
    \/ CCI
    \/ ADX
    \/ Momentum
    \/ MACD
    \/ CountOscillators
    \/ MovingAverages
    \/ CountMovingAverages
    \/ OverallSummary
    \/ SupportResistance
    \/ Volatility
    \/ Assemble

Spec == Init /\ [][Next]_vars

\* a second request for the same ticker on the same snapshot: the function is
\* entered again.  Nothing the first invocation left behind is cleared here
\* (only the fault budget of the model restarts), so the second report can
\* equal the first only if no step reads a value it has not assigned itself.
InvokeAgain ==
    /\ pc = "done"
    /\ run = 1
    /\ run' = 2
    /\ first' = result
    /\ faults' = 0
    /\ pc' = "fetch"
    /\ UNCHANGED <<locals, result, escaped, drawn, call, ret,
                   workflowVars>>

NextTwice == Next \/ InvokeAgain

SpecTwice == Init /\ [][NextTwice]_vars

Returned == pc = "done"
Populated == DOMAIN result # {}

(***************************************************************************)
(* Direct calls of the pure functions, over bounded arguments.             *)
(***************************************************************************)
InitRating ==
    /\ pc = "idle"
    /\ InitEngine
    /\ NoWorkflow
    /\ call \in {[fn |-> "map_to_rating", buy_count |-> b, sell_count |-> s,
                  neutral_count |-> n] :
                    b \in 0..MaxCount, s \in 0..MaxCount, n \in 0..MaxCount}
    /\ ret = "none"

CallMapToRating ==
    /\ call.fn = "map_to_rating"
    /\ ret = "none"
    /\ ret' = map_to_rating(call.buy_count, call.sell_count, call.neutral_count)
    /\ UNCHANGED <<engineVars, workflowVars, call>>

NextRating == CallMapToRating

SpecRating == InitRating /\ [][NextRating]_vars

InitSignal ==
    /\ pc = "idle"
    /\ InitEngine
    /\ NoWorkflow
    /\ call \in {[fn |-> "price_vs_ma_signal", price |-> Dec2(100 * p),
                  ma_value |-> Dec2(100 * m)] :
                    p \in 90..MaxPrice, m \in 90..MaxPrice}
    /\ ret = "none"

CallPriceVsMaSignal ==
    /\ call.fn = "price_vs_ma_signal"
    /\ ret = "none"
    /\ ret' = price_vs_ma_signal(call.price, call.ma_value)
    /\ UNCHANGED <<engineVars, workflowVars, call>>

NextSignal == CallPriceVsMaSignal

SpecSignal == InitSignal /\ [][NextSignal]_vars

InitLevels ==
    /\ pc = "idle"
    /\ InitEngine
    /\ NoWorkflow
    /\ call \in
          {[fn |-> "calculate_support_resistance", window |-> "ok",
            recent_high |-> Dec2(100 * h), recent_low |-> Dec2(100 * l),
            current |-> Dec2(100 * c)] :
               h \in 90..MaxPrice, l \in 90..MaxPrice, c \in 90..MaxPrice}
          \cup {[fn |-> "calculate_support_resistance", window |-> "raise",
                 recent_high |-> 0, recent_low |-> 0, current |-> 0]}
    /\ call.recent_high >= call.recent_low
    /\ ret = UnsetLevels

CallSupportResistance ==
    /\ call.fn = "calculate_support_resistance"
    /\ ret = UnsetLevels
    /\ ret' = try_support_resistance(call.window, call.recent_high,
                                     call.recent_low, call.current)
    /\ UNCHANGED <<engineVars, workflowVars, call>>

NextLevels == CallSupportResistance

SpecLevels == InitLevels /\ [][NextLevels]_vars

(***************************************************************************)
(* The agent workflow (src/agent/agent.py).  The language model, the tools *)
(* and the graph runtime are not part of the repository: every reply of    *)
(* the model is an input, and a call to it may raise, which ends the run.  *)
(***************************************************************************)
StockNames == {"tcs.ns", "TCS"}
SymbolReplies == {"TCS.NS", "tcs"}

\* str.upper() on the strings of the model
upper(s) == CASE s = "tcs.ns" -> "TCS.NS"
              [] s = "tcs"    -> "TCS"
              [] OTHER        -> s

\* '.NS' in s.upper() or '.BO' in s.upper()
has_suffix(s) == upper(s) = "TCS.NS"

\* the first usable line of the reply, with .NS appended if it has no suffix
clean_symbol(reply) == IF has_suffix(reply) THEN reply ELSE upper(reply) \o ".NS"

AiMessage(tool_calls) ==
    [type |-> "ai", tool_calls |-> tool_calls,
     content |-> IF tool_calls THEN "" ELSE "text"]
ToolMessage == [type |-> "tool", tool_calls |-> FALSE, content |-> "text"]

\* a node's return value is merged into the state: the key is overwritten
Written(key, value) == (key :> value) @@ state

\* messages: Annotated[list, operator.add]
Added(msgs) == ("messages" :> (state.messages \o msgs)) @@ state

Edges == [START |-> "identify_stock", identify_stock |-> "news_search",
          tools |-> "process_tools", process_tools |-> "financial_analysis",
          financial_analysis |-> "__end__"]

tools_condition_always(messages) == "tools"

\* langgraph.prebuilt.tools_condition: "tools" when the last message
\* carries tool calls, END otherwise
tools_condition(messages) ==
    IF messages[Len(messages)].tool_calls THEN "tools" ELSE "__end__"

InitWorkflow ==
    /\ pc = "idle"
    /\ InitEngine
    /\ call = NoCall
    /\ ret = "none"
    /\ node = Edges.START
    /\ executed = <<>>
    /\ state \in {[stock_name |-> n, messages |-> <<>>] : n \in StockNames}
    /\ analysis = NoAnalysis

IdentifyStock ==
    /\ node = "identify_stock"
    /\ executed' = Append(executed, "identify_stock")
    /\ IF has_suffix(state.stock_name)
       THEN /\ state' = Written("stock_symbol", upper(state.stock_name))
            /\ node' = Edges.identify_stock
       ELSE \E response \in {"raise"} \cup SymbolReplies :
               IF response = "raise"
               THEN /\ node' = "raised"
                    /\ UNCHANGED state
               ELSE /\ state' = Written("stock_symbol", clean_symbol(response))
                    /\ node' = Edges.identify_stock
    /\ UNCHANGED <<engineVars, call, ret, analysis>>

NewsSearch ==
    /\ node = "news_search"
    /\ executed' = Append(executed, "news_search")
    /\ \E result_ \in {"raise"} \cup {"tool_calls", "answer"} :
          IF result_ = "raise"
          THEN /\ node' = "raised"
               /\ UNCHANGED state
          ELSE /\ state' = Added(<<AiMessage(result_ = "tool_calls")>>)
               /\ node' = tools_condition(state'.messages)
    /\ UNCHANGED <<engineVars, call, ret, analysis>>

Tools ==
    /\ node = "tools"
    /\ executed' = Append(executed, "tools")
    /\ \E outcome \in {"raise", "ok"} :
          IF outcome = "raise"
          THEN /\ node' = "raised"
               /\ UNCHANGED state
          ELSE /\ state' = Added(<<ToolMessage>>)
               /\ node' = Edges.tools
    /\ UNCHANGED <<engineVars, call, ret, analysis>>

\* the joined message contents ("text": whole, or cut to 5000 characters
\* when they are longer and hold no news array), or the news array parsed
\* out of them and re-serialised ("structured")
ProcessTools ==
    /\ node = "process_tools"
    /\ executed' = Append(executed, "process_tools")
    /\ \E long \in BOOLEAN, parsed \in BOOLEAN :
          state' = Written("web_search_results",
                           IF long /\ parsed THEN "structured" ELSE "text")
    /\ node' = Edges.process_tools
    /\ UNCHANGED <<engineVars, call, ret, analysis>>

\* tech_data = get_technical_indicators(stock_symbol): the engine is entered
FinancialAnalysisCall ==
    /\ node = "financial_analysis"
    /\ pc = "idle"
    /\ executed' = Append(executed, "financial_analysis")
    /\ pc' = "fetch"
    /\ UNCHANGED <<locals, faults, result, escaped, run, drawn, first, call,
                   ret, node, state, analysis>>

RequiredKeys == {"summary", "recommendation", "trade_setup", "bullish_factors",
                 "bearish_factors"}

KeySets == {RequiredKeys, RequiredKeys \ {"trade_setup"},
            RequiredKeys \cup {"risk_analysis"}}

\* what json.loads(json_str) yields for the reply: it raises ("invalid"), or
\* gives a dict with these keys, a list with these strings among its
\* elements, a str with these words in it, or a number
JsonValues ==
    {[kind |-> k, keys |-> {}, recommendation |-> "none",
      confidence_level |-> "none"] : k \in {"invalid", "number"}}
    \cup {[kind |-> k, keys |-> ks, recommendation |-> "BUY",
           confidence_level |-> "none"] :
             k \in {"object", "array", "string"}, ks \in KeySets}

\* get_technical_indicators has returned: its locals no longer exist
DropEngineFrame ==
    /\ hist' = [empty |-> TRUE, nbars |-> 0]
    /\ current_price' = 0
    /\ faults' = 0
    /\ osc' = [n \in DOMAIN osc |-> Unset]
    /\ osc_count' = UnsetCount
    /\ ma' = [n \in DOMAIN ma |-> UnsetPair]
    /\ ma_count' = UnsetCount
    /\ total_count' = UnsetCount
    /\ levels' = UnsetLevels
    /\ volatility' = UnsetVolatility
    /\ result' = EmptyReport
    /\ drawn' = [site \in Sites |-> Undrawn]
    /\ UNCHANGED <<escaped, run, first>>

\* analysis = llm.invoke(prompt), outside the try.  By then the engine call
\* has returned and tech_data has been formatted into the prompt: nothing
\* of that call is read again.
FinancialAnalysisInvoke ==
    /\ node = "financial_analysis"
    /\ pc = "done"
    /\ \/ /\ node' = "raised"
          /\ UNCHANGED <<engineVars, analysis>>
       \/ /\ analysis' \in JsonValues
          /\ pc' = "parse"
          /\ DropEngineFrame
          /\ UNCHANGED node
    /\ UNCHANGED <<call, ret, executed, state>>

\* the try block returns the parsed value iff json.loads succeeds and
\* all(key in structured_analysis for key in required_keys) is true; `in` on
\* a number raises like json.loads does
structured(v) ==
    /\ v.kind \in {"object", "array", "string"}
    /\ RequiredKeys \subseteq v.keys

\* trade_setup_data: whether a trade_setup object was recovered from the reply
fallback_analysis(trade_setup_data) ==
    [kind |-> "object",
     keys |-> {"summary", "bullish_factors", "bearish_factors",
               "recommendation", "confidence_level"}
              \cup (IF trade_setup_data THEN {"trade_setup"} ELSE {}),
     recommendation |-> "HOLD",
     confidence_level |-> "LOW"]

\* json.dumps(v): the JSON text that encodes v
json_dumps(v) == [json |-> v]

FinancialAnalysisReturn ==
    /\ node = "financial_analysis"
    /\ pc = "parse"
    /\ IF structured(analysis)
       THEN state' = Written("financial_analysis", json_dumps(analysis))
       ELSE \E trade_setup_data \in BOOLEAN :
               state' = Written("financial_analysis",
                                json_dumps(fallback_analysis(trade_setup_data)))
    /\ node' = Edges.financial_analysis
    /\ pc' = "returned"
    /\ UNCHANGED <<locals, faults, result, escaped, run, drawn, first, call,
                   ret, executed, analysis>>

NextWorkflow ==
    \/ IdentifyStock
    \/ NewsSearch
    \/ Tools
    \/ ProcessTools
    \/ FinancialAnalysisCall
    \/ Next
    \/ FinancialAnalysisInvoke
    \/ FinancialAnalysisReturn

SpecWorkflow == InitWorkflow /\ [][NextWorkflow]_vars

(***************************************************************************)
(* Properties.                                                             *)
(***************************************************************************)
ReportKeys == {"overall_signal", "signal_strength", "summary", "oscillators",
               "moving_averages", "current_price", "volatility",
               "support_levels", "resistance_levels", "signals"}

\* C1: every invocation whose series has fewer than 50 bars (the empty
\* series included) returns the empty report {}.
C1_ShortSeriesReturnsEmpty ==
    (Returned /\ hist.nbars < 50) => (result = EmptyReport /\ ~escaped)

C1_Witness ==
    Returned /\ ~hist.empty /\ hist.nbars = 49 /\ result = EmptyReport

\* C2: every invocation whose series has at least 50 bars returns a non-empty
\* report whose support_levels and resistance_levels have length exactly 3.
C2_LongSeriesReturnsLevels ==
    (Returned /\ hist.nbars >= 50) =>
        /\ Populated
        /\ Len(result.support_levels) = 3
        /\ Len(result.resistance_levels) = 3

\* C3: no error ever leaves get_technical_indicators: whatever fails (the
\* fetch, an indicator computation), the call returns the empty report {} or
\* a populated report.
C3_NeverRaises ==
    /\ ~escaped
    /\ Returned => (result = EmptyReport \/ DOMAIN result = ReportKeys)

C3_Witness ==
    /\ Returned /\ hist.nbars >= 50 /\ faults > 0
    /\ osc["macd"].action = "UNSET"
    /\ result = EmptyReport /\ ~escaped

\* C4: map_to_rating is Neutral for a zero total and otherwise tests
\* buy_ratio = buy / total in the order >= 0.75 Strong Buy, >= 0.55 Buy,
\* <= 0.25 Strong Sell, <= 0.45 Sell, else Neutral; 11 of 20 is Buy,
\* (6,0,0) Strong Buy, (0,6,0) Strong Sell, (0,0,0) Neutral.
C4_RatingThresholds ==
    (call.fn = "map_to_rating" /\ ret # "none") =>
        LET b == call.buy_count
            t == call.buy_count + call.sell_count + call.neutral_count
            expected ==
                IF t = 0 THEN "Neutral"
                ELSE IF 4 * b >= 3 * t THEN "Strong Buy"
                ELSE IF 20 * b >= 11 * t THEN "Buy"
                ELSE IF 4 * b <= t THEN "Strong Sell"
                ELSE IF 20 * b <= 9 * t THEN "Sell"
                ELSE "Neutral"
        IN  /\ ret = expected
            /\ (b = 11 /\ t = 20) => ret = "Buy"
            /\ (b = 6 /\ t = 6) => ret = "Strong Buy"
            /\ (b = 0 /\ t = 6) => ret = "Strong Sell"
            /\ (t = 0) => ret = "Neutral"

C4_Witness ==
    /\ call.fn = "map_to_rating"
    /\ call.buy_count = 11 /\ call.sell_count = 9 /\ call.neutral_count = 0
    /\ ret = "Buy"

\* C5 (as claimed): map_to_rating(2,2,2) returns Neutral.
C5_EvenSplitNeutral ==
    (/\ call.fn = "map_to_rating" /\ ret # "none"
     /\ call.buy_count = 2 /\ call.sell_count = 2 /\ call.neutral_count = 2)
        => ret = "Neutral"

\* C5 (amended): map_to_rating(2,2,2) returns Sell: its buy_ratio of 1/3 is
\* above 0.25 and not above 0.45.
C5_EvenSplitSell ==
    (/\ call.fn = "map_to_rating" /\ ret # "none"
     /\ call.buy_count = 2 /\ call.sell_count = 2 /\ call.neutral_count = 2)
        => ret = "Sell"

C5_Witness ==
    /\ call.fn = "map_to_rating"
    /\ call.buy_count = 2 /\ call.sell_count = 2 /\ call.neutral_count = 2
    /\ ret = "Sell"

C8_RsiStrictBounds ==
    (osc["rsi"].action # "UNSET") =>
        LET rsi == osc["rsi"].value
            sig == osc["rsi"].action
        IN  /\ (sig = "BUY") <=> (rsi < 3000000)
            /\ (sig = "SELL") <=> (rsi > 7000000)
            /\ (sig = "NEUTRAL") <=> (rsi >= 3000000 /\ rsi <= 7000000)
            /\ (rsi = 2999000) => sig = "BUY"

C8_Witness ==
    /\ Returned /\ Populated
    /\ osc["rsi"].value = 3000000
    /\ result.oscillators.rsi.action = "NEUTRAL"

\* C9: volatility_rank is High exactly when atr_percentage > 2.5, Low exactly
\* when atr_percentage < 1.5, Medium otherwise (atr_percentage being
\* atr / current_price * 100): 2.5 and 1.5 are Medium, 2.51 is High.
C9_VolatilityRankBounds ==
    (volatility.volatility_score # "UNSET") =>
        LET rank == volatility.volatility_analysis.volatility_rank
            atr100 == volatility.atr_value * 100     \* atr_percentage * price
        IN  /\ (rank = "High") <=> (2 * atr100 > 5 * current_price)
            /\ (rank = "Low") <=> (2 * atr100 < 3 * current_price)
            /\ (rank = "Medium") <=>
                  (2 * atr100 >= 3 * current_price /\ 2 * atr100 <= 5 * current_price)
            /\ (2 * atr100 = 5 * current_price) =>
                  /\ volatility.volatility_analysis.atr_percentage = Dec2(250)
                  /\ rank = "Medium"
            /\ (volatility.volatility_analysis.atr_percentage = Dec2(251)) =>
                  rank = "High"

C9_Witness ==
    /\ volatility.volatility_score # "UNSET"
    /\ volatility.volatility_analysis.atr_percentage = Dec2(250)
    /\ volatility.volatility_analysis.volatility_rank = "Medium"

\* C10: every non-empty report carries both volatility classifications: the
\* three-way volatility_rank, with atr_percentage and historical_volatility,
\* and the binary volatility_score.
C10_BothVolatilityClassifications ==
    (Returned /\ Populated) =>
        {"volatility_score", "volatility_rank", "atr_percentage",
         "historical_volatility"} \subseteq DOMAIN result.volatility

\* C11: for a non-empty window, with H = max High and L = min Low of the
\* last 14 bars, C the latest close and pivot = (H+L+C)/3, the levels are
\* resistance = [2*pivot - L, pivot + (H-L), H + 2*(pivot-L)] and
\* support = [2*pivot - H, pivot - (H-L), L - 2*(H-pivot)], in that order;
\* H=110, L=90, C=100 gives R1=110 and S1=90.  (Levels are in thirds: three
\* times each level is compared with three times the formula, expanded.)
C11_PivotFormulas ==
    (/\ call.fn = "calculate_support_resistance"
     /\ call.window = "ok" /\ ret # UnsetLevels) =>
        LET H == call.recent_high
            L == call.recent_low
            C == call.current
        IN  /\ ret.resistance = <<2 * H - L + 2 * C, 4 * H - 2 * L + C,
                                  5 * H - 4 * L + 2 * C>>
            /\ ret.support = <<2 * L - H + 2 * C, 4 * L - 2 * H + C,
                               5 * L - 4 * H + 2 * C>>
            /\ (H = Dec2(11000) /\ L = Dec2(9000) /\ C = Dec2(10000)) =>
                  /\ ret.resistance[1] = 3 * Dec2(11000)
                  /\ ret.support[1] = 3 * Dec2(9000)

C11_Witness ==
    /\ call.fn = "calculate_support_resistance" /\ call.window = "ok"
    /\ call.recent_high = Dec2(11000) /\ call.recent_low = Dec2(9000)
    /\ call.current = Dec2(10000)
    /\ ret # UnsetLevels
    /\ ret.resistance[1] = 3 * Dec2(11000)
    /\ ret.support[1] = 3 * Dec2(9000)

C13_AllFieldsRounded ==
    (Returned /\ Populated) =>
        /\ \A n \in {"rsi", "stoch", "cci", "adx", "momentum"} :
              result.oscillators[n].value % 1000 = 0
        /\ result.oscillators.macd.value % 10 = 0
        /\ \A n \in {"ma10", "ma20", "ma50", "ma100", "ma200"} :
              /\ result.moving_averages[n].simple.value % 1000 = 0
              /\ result.moving_averages[n].exponential.value % 1000 = 0
        /\ result.current_price % 1000 = 0
        /\ result.volatility.atr % 1000 = 0
        /\ \A i \in 1..3 : /\ result.support_levels[i] % 1000 = 0
                           /\ result.resistance_levels[i] % 1000 = 0
        /\ result.signals.rsi % 1000 = 0

\* C14 (as claimed): in every non-empty report the MACD signal is BUY when
\* the MACD line is above the signal line and SELL otherwise, never NEUTRAL,
\* also when the MACD result is empty.
C14_MacdNeverNeutral ==
    (Returned /\ Populated) =>
        /\ result.oscillators.macd.action \in {"BUY", "SELL"}
        /\ (result.oscillators.macd.action = "BUY") <=>
              (/\ drawn["macd"].kind = "ok"
               /\ drawn["macd"].value[1] > drawn["macd"].value[2])

\* C14 (amended): in every non-empty report, when the MACD result is not
\* empty the MACD signal is BUY if the MACD line is above the signal line
\* and SELL otherwise; when the MACD result is empty the reading is value 0
\* with signal NEUTRAL, the only path on which the MACD signal is NEUTRAL.
C14_MacdNeutralOnlyWhenEmpty ==
    (Returned /\ Populated) =>
        LET macd == result.oscillators.macd
        IN  /\ result.signals.macd = macd.action
            /\ IF drawn["macd"].kind = "ok"
               THEN macd.action =
                       IF drawn["macd"].value[1] > drawn["macd"].value[2]
                       THEN "BUY" ELSE "SELL"
               ELSE /\ drawn["macd"].kind = "empty"
                    /\ macd.action = "NEUTRAL"
                    /\ macd.value = 0

C14_Witness ==
    /\ Returned /\ Populated
    /\ drawn["macd"].kind = "empty"
    /\ result.oscillators.macd.action = "NEUTRAL"

\* C15: when an oscillator cannot be evaluated on a series that passed the
\* 50-bar guard (its result is missing or empty, or its computation fails)
\* and nothing else fails, the documented default (RSI 50, CCI 0, ADX 25,
\* MACD 0) stands in for that oscillator and the report is complete and
\* non-empty.
C15_OscillatorFailSoft ==
    (/\ Returned /\ hist.nbars >= 50
     /\ \E n \in {"rsi", "stoch", "cci", "adx", "momentum", "macd"} :
           drawn[n].kind \in {"empty", "none", "raise"}
     /\ \A n \in {"ma10", "ma20", "ma50", "ma100", "ma200"} :
           drawn[n].kind \in {"ok", "undrawn"}) =>
        /\ DOMAIN result = ReportKeys
        /\ (drawn["rsi"].kind # "ok") => result.oscillators.rsi.value = Dec2(5000)
        /\ (drawn["cci"].kind # "ok") => result.oscillators.cci.value = 0
        /\ (drawn["adx"].kind # "ok") => result.oscillators.adx.value = Dec2(2500)
        /\ (drawn["macd"].kind # "ok") => result.oscillators.macd.value = 0

\* C16: when the ATR computation fails or produces no values, calculate_atr
\* returns 0, get_volatility_analysis still returns a complete profile (atr
\* 0) and no error propagates: the invocation goes on to its report.
C16_AtrFailSoft ==
    (drawn["atr"].kind \in {"empty", "none", "raise"}) =>
        /\ volatility.atr_value = 0
        /\ volatility.volatility_score = "Low"
        /\ DOMAIN volatility.volatility_analysis =
              {"atr", "atr_percentage", "volatility_rank", "historical_volatility"}
        /\ volatility.volatility_analysis.atr = 0
        /\ volatility.volatility_analysis.atr_percentage = 0
        /\ volatility.volatility_analysis.volatility_rank = "Low"
        /\ pc \in {"assemble", "done"}
        /\ Returned => (DOMAIN result = ReportKeys /\ result.volatility.atr = 0)

C16_Witness ==
    /\ Returned /\ Populated
    /\ drawn["atr"].kind = "raise"
    /\ volatility.volatility_analysis.volatility_rank = "Low"
    /\ result.volatility.atr = 0

\* C17: when a step of calculate_support_resistance raises, it returns
\* support [0,0,0] and resistance [0,0,0] and propagates nothing: the report
\* is still produced, with all-zero levels.
C17_LevelsFailSoft ==
    (drawn["window"].kind = "raise") =>
        /\ levels = [support |-> <<0, 0, 0>>, resistance |-> <<0, 0, 0>>]
        /\ pc \in {"volatility", "assemble", "done"}
        /\ Returned =>
              /\ DOMAIN result = ReportKeys
              /\ result.support_levels = <<0, 0, 0>>
              /\ result.resistance_levels = <<0, 0, 0>>

C17_Witness ==
    /\ Returned /\ Populated
    /\ drawn["window"].kind = "raise"
    /\ result.support_levels = <<0, 0, 0>>
    /\ result.resistance_levels = <<0, 0, 0>>

\* C18: in every non-empty report the oscillator counts sum to 6, the
\* moving-average counts to 10 and the summary counts to 16, each summary
\* count is the sum of the two others, and each rating is map_to_rating of
\* that instance's own counts.
C18_ConsensusInstances ==
    (Returned /\ Populated) =>
        LET o == result.oscillators
            m == result.moving_averages
            t == result.summary
        IN  /\ o.buy + o.sell + o.neutral = 6
            /\ m.buy + m.sell + m.neutral = 10
            /\ t.buy + t.sell + t.neutral = 16
            /\ t.buy = o.buy + m.buy
            /\ t.sell = o.sell + m.sell
            /\ t.neutral = o.neutral + m.neutral
            /\ o.rating = map_to_rating(o.buy, o.sell, o.neutral)
            /\ m.rating = map_to_rating(m.buy, m.sell, m.neutral)
            /\ result.overall_signal = map_to_rating(t.buy, t.sell, t.neutral)

C18_Witness ==
    /\ Returned /\ Populated
    /\ result.oscillators.buy = 3 /\ result.oscillators.sell = 2
    /\ result.oscillators.neutral = 1
    /\ result.moving_averages.buy = 6 /\ result.moving_averages.sell = 4
    /\ result.summary.buy = 9 /\ result.summary.sell = 6
    /\ result.summary.neutral = 1

\* C19: the 50-bar guard comes before every sub-engine: in an invocation
\* whose series has fewer than 50 bars no oscillator, moving average,
\* consensus, support/resistance or volatility computation has run, and no
\* indicator call was made, when {} is returned.
C19_GuardBeforeSubEngines ==
    (pc # "fetch" /\ hist.nbars < 50) =>
        /\ pc \in {"guard", "done"}
        /\ \A n \in DOMAIN osc : osc[n] = Unset
        /\ \A n \in DOMAIN ma : ma[n] = UnsetPair
        /\ osc_count = UnsetCount /\ ma_count = UnsetCount
        /\ total_count = UnsetCount
        /\ levels = UnsetLevels
        /\ volatility = UnsetVolatility
        /\ \A site \in Sites \ {"history"} : drawn[site].kind = "undrawn"
        /\ Returned => result = EmptyReport

C19_Witness ==
    /\ Returned /\ hist.nbars = 49 /\ drawn["history"].kind = "ok"
    /\ result = EmptyReport
    /\ drawn["rsi"].kind = "undrawn" /\ osc["rsi"] = Unset

\* C20: map_to_rating depends on buy_count and the total only:
\* map_to_rating(b, s, n) = map_to_rating(b, s + n, 0); NEUTRAL readings
\* pull towards Sell as SELL readings do, and a non-empty set without BUY
\* readings, such as (0, 0, 6), is rated Strong Sell.
C20_NeutralCountsAsSell ==
    (call.fn = "map_to_rating" /\ ret # "none") =>
        LET b == call.buy_count
            s == call.sell_count
            n == call.neutral_count
        IN  /\ ret = map_to_rating(b, s + n, 0)
            /\ (b = 0 /\ s + n > 0) => ret = "Strong Sell"

C20_Witness ==
    /\ call.fn = "map_to_rating"
    /\ call.buy_count = 0 /\ call.sell_count = 0 /\ call.neutral_count = 6
    /\ ret = "Strong Sell"

C23_WorkflowOrder ==
    LET Order == <<"identify_stock", "news_search", "tools", "process_tools",
                   "financial_analysis">>
        ran(n) == \E i \in DOMAIN executed : executed[i] = n
    IN  /\ Len(executed) <= Len(Order)
        /\ \A i \in DOMAIN executed : executed[i] = Order[i]
        /\ (node = "__end__") => Len(executed) \in {2, 5}
        /\ (ran("financial_analysis") \/ pc # "idle"
               \/ "financial_analysis" \in DOMAIN state) => ran("tools")
        /\ (/\ ran("news_search")
            /\ state.messages # <<>>
            /\ ~state.messages[1].tool_calls) =>
              /\ node = "__end__"
              /\ executed = <<"identify_stock", "news_search">>
              /\ "financial_analysis" \notin DOMAIN state
              /\ pc = "idle"

C23_Witness ==
    /\ node = "__end__"
    /\ executed = <<"identify_stock", "news_search", "tools", "process_tools",
                    "financial_analysis">>
    /\ "financial_analysis" \in DOMAIN state
    /\ pc = "returned"

\* C24: whenever the financial_analysis node returns, its financial_analysis
\* value is a JSON object containing the keys summary, bullish_factors,
\* bearish_factors and recommendation; if the model output cannot be parsed
\* as a JSON object with all of summary, recommendation, trade_setup,
\* bullish_factors and bearish_factors, it is the fallback object with
\* recommendation HOLD and confidence_level LOW.
C24_AnalysisIsObject ==
    ("financial_analysis" \in DOMAIN state) =>
        LET v == state.financial_analysis.json
        IN  /\ v.kind = "object"
            /\ {"summary", "bullish_factors", "bearish_factors",
                "recommendation"} \subseteq v.keys
            /\ ~(/\ analysis.kind = "object"
                 /\ RequiredKeys \subseteq analysis.keys) =>
                  /\ "confidence_level" \in v.keys
                  /\ v.recommendation = "HOLD"
                  /\ v.confidence_level = "LOW"

====
